---- MODULE Spec2Model ----
(***************************************************************************)
(* FOCI assessment engine of backend/app/services/enterprise_foci_service  *)
(* (EnterpriseFOCIService): ownership traversal, indicator evaluation,     *)
(* mitigation recommendation, risk scoring and the orchestrating           *)
(* conduct_comprehensive_assessment with its database transaction.         *)
(***************************************************************************)
EXTENDS Integers, Sequences, FiniteSets, TLC

(***************************************************************************)
(* Bounds of the model.                                                    *)
(***************************************************************************)
\* Assess invocations in one behaviour of Spec.
MaxCalls == 2
\* Assess invocations in one behaviour of SpecRace, which may all overlap.
MaxOverlap == 3
\* Longest indicator list handed to a helper applied on its own.
MaxIndicators == 2
\* Assess invocations in one behaviour of SpecRepeat.
MaxRepeat == 2
\* Collaborator failures and cancellations in one behaviour.
MaxFaults == 1
\* Longest ownership chain (entity owners above the root) in the graph family.
MaxChain == 11
\* Longest ring / deepest cycle position in the graph family.
MaxRing == 7

(***************************************************************************)
(* Program constants.                                                      *)
(***************************************************************************)
HardDepthCap == 10
ExpandDepthLimit == 5
foreign_ownership_minor == 5
foreign_ownership_major == 10
foreign_ownership_critical == 25
voting_control_threshold == 10

\* owner_entity_id of a relation whose owner is an individual (NULL column).
NoEntity == 0
\* termination_date of an active relation (NULL column).
NoDate == 0 - 1

(***************************************************************************)
(* Decimal arithmetic.  Percentages are Decimals in the code; the values   *)
(* that occur (integer percentages divided by 100 and multiplied a few     *)
(* times) are exact in Decimal's 28 digits, so they are modelled as exact  *)
(* fractions n/d in lowest terms.                                          *)
(***************************************************************************)
RECURSIVE GCD(_, _)
GCD(a, b) ==
    IF b = 0 THEN a ELSE GCD(b, a % b)

Decimal(n, d) ==
    LET g == GCD(n, d) IN [n |-> n \div g, d |-> d \div g]

DecInt(k) ==
    [n |-> k, d |-> 1]

DecMul(a, b) ==
    LET g1 == GCD(a.n, b.d)
        g2 == GCD(b.n, a.d)
    IN  Decimal((a.n \div g1) * (b.n \div g2), (a.d \div g2) * (b.d \div g1))

DecAdd(a, b) ==
    LET g == GCD(a.d, b.d)
    IN  Decimal(a.n * (b.d \div g) + b.n * (a.d \div g), (a.d \div g) * b.d)

DecGE(a, b) ==
    a.n * b.d >= b.n * a.d

DecGT(a, b) ==
    a.n * b.d > b.n * a.d

DecMin(a, b) ==
    IF DecGE(a, b) THEN b ELSE a

(***************************************************************************)
(* State.                                                                  *)
(***************************************************************************)
VARIABLES
    entities,        \* Entity table: id -> [exists, deleted, naics_codes]
    relations,       \* OwnershipRelation table: sequence of rows
    authorized,      \* assessors for whom the authority collaborator says yes
    unit,            \* a helper applied on its own: its inputs and its result
    today,           \* the clock, in days
    faults,          \* failures and cancellations so far
    store,           \* committed rows: [assessments, indicators, measures]
    audit,           \* the audit log: the set of entries written so far
    runs             \* every conduct_comprehensive_assessment call so far

vars == <<entities, relations, authorized, unit, today, faults, store, audit, runs>>

EntityIds == 1..(MaxChain + 2)
Root == 1

(***************************************************************************)
(* The ownership-relation query of traverse_ownership: the rows owned by   *)
(* the entity that are in effect today, by ownership_percentage            *)
(* descending (rows of equal percentage keep the table's order).           *)
(***************************************************************************)
InsertDesc(x, s) ==
    LET k == Cardinality({i \in 1..Len(s) :
                 s[i].ownership_percentage >= x.ownership_percentage})
    IN  SubSeq(s, 1, k) \o <<x>> \o SubSeq(s, k + 1, Len(s))

RECURSIVE OrderByPercentageDesc(_)
OrderByPercentageDesc(s) ==
    IF s = <<>> THEN <<>>
    ELSE InsertDesc(s[Len(s)], OrderByPercentageDesc(SubSeq(s, 1, Len(s) - 1)))

IsActiveFor(row, current_entity_id) ==
    /\ row.owned_entity_id = current_entity_id
    /\ row.effective_date <= today
    /\ (row.termination_date = NoDate \/ row.termination_date > today)

select_relations(current_entity_id) ==
    LET hit == {i \in 1..Len(relations) : IsActiveFor(relations[i], current_entity_id)}
        RECURSIVE pick(_)
        pick(i) ==
            IF i > Len(relations) THEN <<>>
            ELSE (IF i \in hit THEN <<relations[i]>> ELSE <<>>) \o pick(i + 1)
    IN  OrderByPercentageDesc(pick(1))

(***************************************************************************)
(* traverse_ownership: the recursive walk.  acc carries the closure's      *)
(* nonlocals (visited_entities, total_foreign_ownership,                   *)
(* foreign_control_indicators), the relation details in the order the      *)
(* nested extends produce (pre-order), the number of relation queries      *)
(* issued and the error a raise left ("none" while running).               *)
(***************************************************************************)
EmptyAcc ==
    [error |-> "none",
     visited_entities |-> {},
     total_foreign_ownership |-> DecInt(0),
     foreign_control_indicators |-> <<>>,
     ownership_details |-> <<>>,
     fetches |-> 0,
     max_call_depth |-> 0]

relation_detail_of(relation, depth, cumulative_percentage) ==
    [owner_id |-> relation.owner_entity_id,
     owner_type |-> relation.owner_type,
     direct_percentage |-> relation.ownership_percentage,
     effective_percentage |->
         DecMul(Decimal(relation.ownership_percentage, 100), cumulative_percentage),
     voting_percentage |-> relation.voting_percentage,
     is_foreign |-> relation.is_foreign,
     is_controlling |-> relation.is_controlling,
     depth |-> depth]

\* The "truthiness" of voting_percentage: None and 0 are both false.
control_percentage_of(relation) ==
    IF relation.voting_percentage # 0
    THEN relation.voting_percentage
    ELSE relation.ownership_percentage

is_control_candidate(relation) ==
    \/ relation.is_controlling
    \/ relation.ownership_percentage >= voting_control_threshold
    \/ (relation.voting_percentage # 0
        /\ relation.voting_percentage >= voting_control_threshold)

record_relation(acc, relation, depth, cumulative_percentage) ==
    LET detail == relation_detail_of(relation, depth, cumulative_percentage)
        withForeign ==
            IF relation.is_foreign
            THEN [acc EXCEPT
                    !.total_foreign_ownership =
                        DecAdd(@, detail.effective_percentage),
                    !.foreign_control_indicators =
                        IF is_control_candidate(relation)
                        THEN Append(@, [owner |-> detail,
                                        control_type |->
                                            IF relation.voting_percentage # 0
                                            THEN "VOTING_CONTROL"
                                            ELSE "OWNERSHIP_CONTROL",
                                        control_percentage |->
                                            control_percentage_of(relation)])
                        ELSE @]
            ELSE acc
    IN  [withForeign EXCEPT !.ownership_details = Append(@, detail)]

\* Recursion into every owner that is an entity, at any depth.
RecurseAtAnyDepth(relation, depth) ==
    relation.owner_entity_id # NoEntity

should_recurse(relation, depth) ==
    relation.owner_entity_id # NoEntity /\ depth < ExpandDepthLimit

RECURSIVE traverse_ownership(_, _, _, _)
RECURSIVE traverse_relations(_, _, _, _, _)
\* The walk without the visited set.
TraverseUnmarked(acc, current_entity_id, depth, cumulative_percentage) ==
    IF acc.error # "none" THEN acc
    ELSE IF depth > HardDepthCap
    THEN [acc EXCEPT !.error = "MAX_DEPTH"]
    ELSE traverse_relations(
             [acc EXCEPT !.fetches = @ + 1,
                         !.max_call_depth = IF depth > @ THEN depth ELSE @],
             select_relations(current_entity_id), 1, depth, cumulative_percentage)

traverse_ownership(acc, current_entity_id, depth, cumulative_percentage) ==
    IF acc.error # "none" THEN acc
    ELSE IF depth > HardDepthCap
    THEN [acc EXCEPT !.error = "MAX_DEPTH"]
    ELSE IF current_entity_id \in acc.visited_entities
    THEN [acc EXCEPT !.error = "CIRCULAR"]
    ELSE traverse_relations(
             [acc EXCEPT !.visited_entities = @ \cup {current_entity_id},
                         !.fetches = @ + 1,
                         !.max_call_depth = IF depth > @ THEN depth ELSE @],
             select_relations(current_entity_id), 1, depth, cumulative_percentage)

traverse_relations(acc, rels, i, depth, cumulative_percentage) ==
    IF acc.error # "none" \/ i > Len(rels) THEN acc
    ELSE LET recorded == record_relation(acc, rels[i], depth, cumulative_percentage)
             effective ==
                 DecMul(Decimal(rels[i].ownership_percentage, 100),
                        cumulative_percentage)
             after ==
                 IF should_recurse(rels[i], depth)
                 THEN traverse_ownership(recorded, rels[i].owner_entity_id,
                                         depth + 1, effective)
                 ELSE recorded
         IN  traverse_relations(after, rels, i + 1, depth, cumulative_percentage)

(***************************************************************************)
(* _calculate_ownership_complexity and _analyze_ownership_structure.       *)
(***************************************************************************)
Min(a, b) ==
    IF a <= b THEN a ELSE b

Max(a, b) ==
    IF a >= b THEN a ELSE b

MaxDepthOf(ownership_relations) ==
    LET depths == {ownership_relations[i].depth : i \in 1..Len(ownership_relations)}
                      \cup {0}
    IN  CHOOSE m \in depths : \A x \in depths : x <= m

_calculate_ownership_complexity(ownership_relations) ==
    LET foreign_count ==
            Len(SelectSeq(ownership_relations, LAMBDA rel : rel.is_foreign))
        controlling_count ==
            Len(SelectSeq(ownership_relations, LAMBDA rel : rel.is_controlling))
        owner_types == {ownership_relations[i].owner_type :
                            i \in 1..Len(ownership_relations)}
    IN  Min(Len(ownership_relations) * 2
              + foreign_count * 5
              + controlling_count * 3
              + MaxDepthOf(ownership_relations) * 10
              + Cardinality(owner_types) * 2,
            100)

_analyze_ownership_structure(entity_id) ==
    LET acc == traverse_ownership(EmptyAcc, entity_id, 0, DecInt(100))
        all_ownership_relations ==
            IF acc.error = "none" THEN acc.ownership_details ELSE <<>>
    IN  [error |-> acc.error,
         entity_id |-> entity_id,
         total_ownership_relations |-> Len(all_ownership_relations),
         ownership_tiers |-> MaxDepthOf(all_ownership_relations) + 1,
         total_foreign_ownership_percentage |->
             IF acc.error = "none"
             THEN DecMin(acc.total_foreign_ownership, DecInt(100))
             ELSE DecInt(0),
         foreign_control_indicators |->
             IF acc.error = "none" THEN acc.foreign_control_indicators ELSE <<>>,
         ownership_complexity_score |->
             _calculate_ownership_complexity(all_ownership_relations),
         detailed_ownership |-> all_ownership_relations,
         fetches |-> acc.fetches,
         max_call_depth |-> acc.max_call_depth]

NoAnalysis ==
    [error |-> "none",
     entity_id |-> 0,
     total_ownership_relations |-> 0,
     ownership_tiers |-> 1,
     total_foreign_ownership_percentage |-> DecInt(0),
     foreign_control_indicators |-> <<>>,
     ownership_complexity_score |-> 0,
     detailed_ownership |-> <<>>,
     fetches |-> 0,
     max_call_depth |-> 0]

(***************************************************************************)
(* Indicator evaluation.  An indicator keeps its type, severity,           *)
(* mitigation_required flag, NISPOM reference and the number of evidence   *)
(* strings (the strings themselves are free text).                         *)
(***************************************************************************)
Indicator(indicator_type, severity, evidence, mitigation_required, ref) ==
    [indicator_type |-> indicator_type,
     severity |-> severity,
     evidence |-> evidence,
     mitigation_required |-> mitigation_required,
     nispom_reference |-> ref]

ForeignRelations(ownership_analysis) ==
    SelectSeq(ownership_analysis.detailed_ownership, LAMBDA rel : rel.is_foreign)

\* The concatenation of a sequence of sequences.
RECURSIVE Flatten(_)
Flatten(ss) ==
    IF ss = <<>> THEN <<>> ELSE Head(ss) \o Flatten(Tail(ss))

_assess_foreign_ownership_indicators(ownership_analysis) ==
    LET pct == ownership_analysis.total_foreign_ownership_percentage
        total ==
            IF DecGT(pct, DecInt(foreign_ownership_critical))
            THEN <<Indicator("FOREIGN_OWNERSHIP", "CRITICAL", 1, TRUE, "2-202a")>>
            ELSE IF DecGT(pct, DecInt(foreign_ownership_major))
            THEN <<Indicator("FOREIGN_OWNERSHIP", "MAJOR", 1, TRUE, "2-202b")>>
            ELSE IF DecGT(pct, DecInt(foreign_ownership_minor))
            THEN <<Indicator("FOREIGN_OWNERSHIP", "MODERATE", 1, FALSE, "2-202c")>>
            ELSE <<>>
        Concentrated(relation) ==
            IF relation.direct_percentage >= 10
            THEN <<Indicator("FOREIGN_OWNERSHIP", "MODERATE", 1,
                             relation.direct_percentage >= 25, "2-203")>>
            ELSE <<>>
        foreign_relations == ForeignRelations(ownership_analysis)
    IN  total \o Flatten([i \in 1..Len(foreign_relations) |->
                             Concentrated(foreign_relations[i])])

_assess_foreign_control_indicators(ownership_analysis) ==
    LET Control(control_indicator) ==
            <<Indicator("FOREIGN_CONTROL",
                        IF control_indicator.control_percentage >= 50
                        THEN "CRITICAL"
                        ELSE IF control_indicator.control_percentage >= 25
                        THEN "MAJOR"
                        ELSE "MODERATE",
                        3, TRUE, "2-204")>>
        control_indicators == ownership_analysis.foreign_control_indicators
    IN  Flatten([i \in 1..Len(control_indicators) |->
                    Control(control_indicators[i])])

\* The influence rule counting a government owner only from the minor
\* ownership threshold up.
GovernmentAboveMinorOnly(ownership_analysis) ==
    LET foreign_relations == ForeignRelations(ownership_analysis)
        foreign_gov_relations ==
            SelectSeq(foreign_relations,
                      LAMBDA rel : /\ rel.owner_type = "GOVERNMENT"
                                   /\ rel.direct_percentage >= foreign_ownership_minor)
    IN  (IF Len(foreign_relations) >= 3
         THEN <<Indicator("FOREIGN_INFLUENCE", "MODERATE", 1, FALSE, "2-205")>>
         ELSE <<>>)
        \o
        (IF foreign_gov_relations # <<>>
         THEN <<Indicator("FOREIGN_INFLUENCE", "CRITICAL", 1, TRUE, "2-206")>>
         ELSE <<>>)

_assess_foreign_influence_indicators(ownership_analysis) ==
    LET foreign_relations == ForeignRelations(ownership_analysis)
        foreign_gov_relations ==
            SelectSeq(foreign_relations, LAMBDA rel : rel.owner_type = "GOVERNMENT")
    IN  (IF Len(foreign_relations) >= 3
         THEN <<Indicator("FOREIGN_INFLUENCE", "MODERATE", 1, FALSE, "2-205")>>
         ELSE <<>>)
        \o
        (IF foreign_gov_relations # <<>>
         THEN <<Indicator("FOREIGN_INFLUENCE", "CRITICAL", 1, TRUE, "2-206")>>
         ELSE <<>>)

\* A NAICS code is a sequence of digits; startswith is a prefix test.
high_tech_naics ==
    {<<3, 3, 4>>, <<3, 3, 5>>, <<3, 3, 6>>, <<5, 4, 1>>,
     <<5, 4, 1, 5, 1, 1>>, <<5, 4, 1, 5, 1, 2>>}

StartsWith(code, prefix) ==
    Len(prefix) <= Len(code) /\ SubSeq(code, 1, Len(prefix)) = prefix

_assess_technology_transfer_indicators(entity) ==
    LET Tech(code) ==
            IF \E tech \in high_tech_naics : StartsWith(code, tech)
            THEN <<Indicator("TECHNOLOGY_TRANSFER", "MINOR", 1, FALSE, "2-207")>>
            ELSE <<>>
    IN  IF entity.has_naics_codes
        THEN Flatten([i \in 1..Len(entity.naics_codes) |->
                         Tech(entity.naics_codes[i])])
        ELSE <<>>

_assess_export_control_indicators(entity) ==
    <<>>

_assess_international_agreement_indicators(entity) ==
    <<>>

_evaluate_comprehensive_foci_indicators(entity, ownership_analysis) ==
    _assess_foreign_ownership_indicators(ownership_analysis)
    \o _assess_foreign_control_indicators(ownership_analysis)
    \o _assess_foreign_influence_indicators(ownership_analysis)
    \o _assess_technology_transfer_indicators(entity)
    \o _assess_export_control_indicators(entity)
    \o _assess_international_agreement_indicators(entity)

(***************************************************************************)
(* _assess_mitigation_requirements: a measure is its measure_type.         *)
(***************************************************************************)
HasSeverity(foci_indicators, severity) ==
    \E i \in 1..Len(foci_indicators) : foci_indicators[i].severity = severity

HasType(foci_indicators, indicator_type) ==
    \E i \in 1..Len(foci_indicators) :
        foci_indicators[i].indicator_type = indicator_type

\* The recommender without its primary strategy: only the technology
\* control plan is ever proposed.
TechnologyMeasuresOnly(ownership_analysis, foci_indicators) ==
    IF HasType(foci_indicators, "TECHNOLOGY_TRANSFER")
    THEN <<"TECHNOLOGY_CONTROL_PLAN">>
    ELSE <<>>

\* The recommender proposing a proxy agreement whether or not a foreign
\* control indicator exists.
ProxyWithoutControl(ownership_analysis, foci_indicators) ==
    LET pct == ownership_analysis.total_foreign_ownership_percentage
        primary ==
            IF HasSeverity(foci_indicators, "CRITICAL") \/ DecGE(pct, DecInt(25))
            THEN <<"SPECIAL_SECURITY_AGREEMENT">>
            ELSE IF HasSeverity(foci_indicators, "MAJOR") \/ DecGE(pct, DecInt(10))
            THEN <<"PROXY_AGREEMENT">>
            ELSE <<>>
    IN  primary \o
        (IF HasType(foci_indicators, "TECHNOLOGY_TRANSFER")
         THEN <<"TECHNOLOGY_CONTROL_PLAN">>
         ELSE <<>>)

\* The recommender with its second strategy tested independently of the
\* first (`if` in place of `elif`).
PrimaryMeasuresStacked(ownership_analysis, foci_indicators) ==
    LET pct == ownership_analysis.total_foreign_ownership_percentage
    IN  (IF HasSeverity(foci_indicators, "CRITICAL") \/ DecGE(pct, DecInt(25))
         THEN <<"SPECIAL_SECURITY_AGREEMENT">>
         ELSE <<>>)
        \o
        (IF HasSeverity(foci_indicators, "MAJOR") \/ DecGE(pct, DecInt(10))
         THEN IF ownership_analysis.foreign_control_indicators # <<>>
              THEN <<"PROXY_AGREEMENT">>
              ELSE <<"BOARD_RESOLUTION">>
         ELSE <<>>)
        \o
        (IF HasType(foci_indicators, "TECHNOLOGY_TRANSFER")
         THEN <<"TECHNOLOGY_CONTROL_PLAN">>
         ELSE <<>>)

_assess_mitigation_requirements(ownership_analysis, foci_indicators) ==
    LET pct == ownership_analysis.total_foreign_ownership_percentage
        primary ==
            IF HasSeverity(foci_indicators, "CRITICAL") \/ DecGE(pct, DecInt(25))
            THEN <<"SPECIAL_SECURITY_AGREEMENT">>
            ELSE IF HasSeverity(foci_indicators, "MAJOR") \/ DecGE(pct, DecInt(10))
            THEN IF ownership_analysis.foreign_control_indicators # <<>>
                 THEN <<"PROXY_AGREEMENT">>
                 ELSE <<"BOARD_RESOLUTION">>
            ELSE <<>>
    IN  primary \o
        (IF HasType(foci_indicators, "TECHNOLOGY_TRANSFER")
         THEN <<"TECHNOLOGY_CONTROL_PLAN">>
         ELSE <<>>)

(***************************************************************************)
(* _calculate_enterprise_risk_score and its helpers.                       *)
(***************************************************************************)
indicator_weights ==
    [FOREIGN_OWNERSHIP |->
         [MINOR |-> 10, MODERATE |-> 25, MAJOR |-> 50, CRITICAL |-> 100],
     FOREIGN_CONTROL |->
         [MINOR |-> 15, MODERATE |-> 35, MAJOR |-> 70, CRITICAL |-> 100],
     FOREIGN_INFLUENCE |->
         [MINOR |-> 5, MODERATE |-> 15, MAJOR |-> 40, CRITICAL |-> 80],
     TECHNOLOGY_TRANSFER |->
         [MINOR |-> 20, MODERATE |-> 40, MAJOR |-> 80, CRITICAL |-> 100]]

IndicatorWeight(indicator) ==
    IF /\ indicator.indicator_type \in DOMAIN indicator_weights
       /\ indicator.severity \in DOMAIN indicator_weights[indicator.indicator_type]
    THEN indicator_weights[indicator.indicator_type][indicator.severity]
    ELSE 0

RECURSIVE Sum(_)
Sum(s) ==
    IF s = <<>> THEN 0 ELSE Head(s) + Sum(Tail(s))

MeasureReduction(measure_type) ==
    IF measure_type = "SPECIAL_SECURITY_AGREEMENT" THEN 30
    ELSE IF measure_type = "PROXY_AGREEMENT" THEN 20
    ELSE IF measure_type = "BOARD_RESOLUTION" THEN 15
    ELSE IF measure_type = "TECHNOLOGY_CONTROL_PLAN" THEN 10
    ELSE 0

\* The ownership score with its first two bands exchanged.
OwnershipScoreBandsExchanged(pct) ==
    IF DecGE(pct, DecInt(25)) THEN 30
    ELSE IF DecGE(pct, DecInt(10)) THEN 50
    ELSE IF DecGE(pct, DecInt(5)) THEN 15
    ELSE 0

OwnershipScore(pct) ==
    IF DecGE(pct, DecInt(25)) THEN 50
    ELSE IF DecGE(pct, DecInt(10)) THEN 30
    ELSE IF DecGE(pct, DecInt(5)) THEN 15
    ELSE 0

\* The risk levels with CRITICAL starting at 50.
RiskLevelCriticalFrom50(final_score) ==
    IF final_score >= 50 THEN "CRITICAL"
    ELSE IF final_score >= 30 THEN "MEDIUM"
    ELSE IF final_score >= 10 THEN "LOW"
    ELSE "NONE"

RiskLevelOf(final_score) ==
    IF final_score >= 80 THEN "CRITICAL"
    ELSE IF final_score >= 60 THEN "HIGH"
    ELSE IF final_score >= 30 THEN "MEDIUM"
    ELSE IF final_score >= 10 THEN "LOW"
    ELSE "NONE"

_get_clearance_recommendation(risk_level, risk_score) ==
    IF risk_level = "CRITICAL" THEN "DENY"
    ELSE IF risk_level = "HIGH" THEN "CONDITIONAL APPROVAL"
    ELSE IF risk_level = "MEDIUM" THEN "APPROVE WITH MITIGATION"
    ELSE IF risk_level = "LOW" THEN "APPROVE WITH MONITORING"
    ELSE "APPROVE"

\* The confidence score deducting for weak evidence from one half up.
ConfidenceWeakFromHalf(ownership_analysis, foci_indicators) ==
    LET weak == Len(SelectSeq(foci_indicators, LAMBDA ind : ind.evidence < 2))
    IN  100
        - (IF ownership_analysis.ownership_tiers > 3 THEN 10 ELSE 0)
        - (IF 2 * weak >= Len(foci_indicators) THEN 20 ELSE 0)

ConfidenceScore(ownership_analysis, foci_indicators) ==
    LET weak == Len(SelectSeq(foci_indicators, LAMBDA ind : ind.evidence < 2))
    IN  100
        - (IF ownership_analysis.ownership_tiers > 3 THEN 10 ELSE 0)
        - (IF 2 * weak > Len(foci_indicators) THEN 20 ELSE 0)

_assess_confidence_level(ownership_analysis, foci_indicators) ==
    LET confidence_score == ConfidenceScore(ownership_analysis, foci_indicators)
    IN  IF confidence_score >= 90 THEN "VERY_HIGH"
        ELSE IF confidence_score >= 75 THEN "HIGH"
        ELSE IF confidence_score >= 60 THEN "MEDIUM"
        ELSE "LOW"

_calculate_enterprise_risk_score(ownership_analysis, foci_indicators, mitigation_measures) ==
    LET indicator_score ==
            Sum([i \in 1..Len(foci_indicators) |->
                    IndicatorWeight(foci_indicators[i])])
        base_score ==
            OwnershipScore(ownership_analysis.total_foreign_ownership_percentage)
            + Min(ownership_analysis.ownership_complexity_score \div 4, 25)
            + Min(indicator_score, 50)
        mitigation_reduction ==
            Sum([i \in 1..Len(mitigation_measures) |->
                    MeasureReduction(mitigation_measures[i])])
        final_score == Max(base_score - mitigation_reduction, 0)
    IN  [risk_score |-> final_score,
         risk_level |-> RiskLevelOf(final_score),
         base_score |-> base_score,
         indicator_contribution |-> indicator_score,
         mitigation_reduction |-> mitigation_reduction,
         mitigation_required |-> final_score >= 30,
         clearance_recommendation |->
             _get_clearance_recommendation(RiskLevelOf(final_score), final_score),
         confidence_level |->
             _assess_confidence_level(ownership_analysis, foci_indicators)]

NoRisk ==
    [risk_score |-> 0, risk_level |-> "NONE", base_score |-> 0,
     indicator_contribution |-> 0, mitigation_reduction |-> 0,
     mitigation_required |-> FALSE, clearance_recommendation |-> "APPROVE",
     confidence_level |-> "VERY_HIGH"]

(***************************************************************************)
(* _assess_dcsa_submission_requirements.                                   *)
(***************************************************************************)
_estimate_dcsa_review_time(urgency) ==
    IF urgency = "PRIORITY" THEN "30-45 business days"
    ELSE IF urgency = "EXPEDITED" THEN "15-30 business days"
    ELSE "60-90 business days"

\* The submission rule asking for a submission from risk level LOW up.
SubmissionFromLow(risk_assessment, foci_indicators) ==
    [submission_required |-> risk_assessment.risk_level # "NONE",
     submission_urgency |-> "STANDARD",
     required_documents |-> 0,
     estimated_review_time |-> _estimate_dcsa_review_time("STANDARD"),
     dcsa_contact_required |-> FALSE]

\* The submission rule without its critical-indicator trigger.
SubmissionByRiskLevelOnly(risk_assessment, foci_indicators) ==
    LET risk_level == risk_assessment.risk_level
        high == risk_level \in {"HIGH", "CRITICAL"}
        urgency == IF high THEN "EXPEDITED" ELSE "STANDARD"
    IN  [submission_required |-> high \/ risk_level = "MEDIUM",
         submission_urgency |-> urgency,
         required_documents |->
             IF high THEN 4 ELSE IF risk_level = "MEDIUM" THEN 3 ELSE 0,
         estimated_review_time |-> _estimate_dcsa_review_time(urgency),
         dcsa_contact_required |-> high]

_assess_dcsa_submission_requirements(risk_assessment, foci_indicators) ==
    LET risk_level == risk_assessment.risk_level
        high == risk_level \in {"HIGH", "CRITICAL"}
        critical == HasSeverity(foci_indicators, "CRITICAL")
        urgency ==
            IF high THEN "EXPEDITED"
            ELSE IF critical THEN "PRIORITY"
            ELSE "STANDARD"
    IN  [submission_required |-> high \/ risk_level = "MEDIUM" \/ critical,
         submission_urgency |-> urgency,
         required_documents |->
             IF high THEN 4 ELSE IF risk_level = "MEDIUM" THEN 3 ELSE 0,
         estimated_review_time |-> _estimate_dcsa_review_time(urgency),
         dcsa_contact_required |-> high]

NoDcsa ==
    [submission_required |-> FALSE, submission_urgency |-> "STANDARD",
     required_documents |-> 0,
     estimated_review_time |-> "60-90 business days",
     dcsa_contact_required |-> FALSE]

(***************************************************************************)
(* The orchestrator: conduct_comprehensive_assessment.  Each call is a     *)
(* run; a run advances from one await to the next, so calls interleave     *)
(* there.  The writes of a run stay in its transaction (pending) until     *)
(* the `async with self.db.begin()` block commits them on exit; an         *)
(* exception leaving the block rolls them back.                            *)
(***************************************************************************)
AssessmentTypes == {"INITIAL", "ANNUAL", "TRIGGERED", "CHANGE_IN_OWNERSHIP"}

\* The types the requests of Spec ask for.
CallTypes == {"ANNUAL", "TRIGGERED"}

Assessors == {"fso", "visitor"}

recent_threshold(assessment_type) ==
    IF assessment_type = "INITIAL" THEN 90
    ELSE IF assessment_type = "ANNUAL" THEN 330
    ELSE IF assessment_type = "TRIGGERED" THEN 30
    ELSE IF assessment_type = "CHANGE_IN_OWNERSHIP" THEN 60
    ELSE 90

review_interval(assessment_type) ==
    IF assessment_type = "INITIAL" THEN 365
    ELSE IF assessment_type = "ANNUAL" THEN 365
    ELSE IF assessment_type = "TRIGGERED" THEN 180
    ELSE IF assessment_type = "CHANGE_IN_OWNERSHIP" THEN 90
    ELSE 365

_calculate_next_review_date(assessment_type) ==
    today + review_interval(assessment_type)

EmptyRows ==
    [assessments |-> {}, indicators |-> {}, measures |-> {}]

\* The rows the cache query selects.  assessment_date is a date and the
\* cutoff utcnow() - threshold a timestamp: a row dated exactly threshold
\* days ago passes only when the query runs at midnight sharp.
\* The cache query without its assessment_type filter.
RecentRowsOfAnyType(entity_id, assessment_type, at_midnight) ==
    {a \in store.assessments :
        /\ a.entity_id = entity_id
        /\ \/ a.assessment_date > today - recent_threshold(assessment_type)
           \/ (at_midnight
               /\ a.assessment_date = today - recent_threshold(assessment_type))
        /\ a.validation_status = "PASSED"}

RecentRows(entity_id, assessment_type, at_midnight) ==
    {a \in store.assessments :
        /\ a.entity_id = entity_id
        /\ a.assessment_type = assessment_type
        /\ \/ a.assessment_date > today - recent_threshold(assessment_type)
           \/ (at_midnight
               /\ a.assessment_date = today - recent_threshold(assessment_type))
        /\ a.validation_status = "PASSED"}

NewRun(entity_id, assessor_id, assessment_type, force_refresh) ==
    [entity_id |-> entity_id,
     assessor_id |-> assessor_id,
     assessment_type |-> assessment_type,
     force_refresh |-> force_refresh,
     overlaps |-> {r \in 1..Len(runs) : runs[r].pc # "done"},
     entity_gone |-> ~entities[entity_id].exists \/ entities[entity_id].deleted,
     pc |-> "validate",
     error |-> "none",
     steps |-> {},
     cache_rows |-> 0,
     ownership_analysis |-> NoAnalysis,
     foci_indicators |-> <<>>,
     mitigation_measures |-> <<>>,
     risk_assessment |-> NoRisk,
     dcsa_requirements |-> NoDcsa,
     pending |-> EmptyRows,
     returned |-> 0,
     outcome |-> "running"]

RunIds == 1..Len(runs)

InFlight == {r \in RunIds : runs[r].pc # "done"}

TryStages ==
    {"validate", "cache", "analyze", "create", "audit"}

FailureOf(stage) ==
    IF stage = "audit" THEN "AUDIT" ELSE "STORAGE"

Step(r, stage) ==
    /\ r \in RunIds
    /\ runs[r].pc = stage

LogEntries(r) ==
    {e \in audit : e.run = r}

AuditRecord(r, kind, event_type, assessment_id, detail) ==
    [run |-> r,
     seq |-> Cardinality(LogEntries(r)) + 1,
     kind |-> kind,
     event_type |-> event_type,
     entity_id |-> runs[r].entity_id,
     assessment_id |-> assessment_id,
     detail |-> detail,
     assessor_id |-> runs[r].assessor_id]

Begin(entity_id, assessor_id, assessment_type, force_refresh) ==
    /\ runs' = Append(runs,
                  NewRun(entity_id, assessor_id, assessment_type, force_refresh))
    /\ UNCHANGED <<entities, relations, authorized, unit, today, faults, store, audit>>

\* A request arrives after the earlier ones have ended.
Call ==
    /\ Len(runs) < MaxCalls
    /\ InFlight = {}
    /\ \E assessment_type \in CallTypes, force_refresh \in BOOLEAN :
           Begin(Root, "fso", assessment_type, force_refresh)

\* A request arrives while earlier ones may still be running.
OverlappingCall ==
    /\ Len(runs) < MaxOverlap
    /\ \E assessment_type \in CallTypes, force_refresh \in BOOLEAN :
           Begin(Root, "fso", assessment_type, force_refresh)

\* The only request of a behaviour of SpecGraphs.
FirstCall ==
    /\ runs = <<>>
    /\ \E assessor_id \in Assessors, assessment_type \in AssessmentTypes :
           Begin(Root, assessor_id, assessment_type, FALSE)

\* The entity query without the deleted_at filter.
ValidateExistenceOnly(entity_id, assessor_id) ==
    IF entities[entity_id].exists THEN "none" ELSE "ENTITY_NOT_FOUND"

_validate_assessment_authority(entity_id, assessor_id) ==
    IF entities[entity_id].exists /\ ~entities[entity_id].deleted
    THEN "none"
    ELSE "ENTITY_NOT_FOUND"

Validate(r) ==
    /\ Step(r, "validate")
    /\ LET error == _validate_assessment_authority(runs[r].entity_id,
                                                   runs[r].assessor_id)
       IN  runs' = [runs EXCEPT
                      ![r].steps = @ \cup {"validate"},
                      ![r].error = error,
                      ![r].pc = IF error = "none" THEN "cache" ELSE "log_error"]
    /\ UNCHANGED <<entities, relations, authorized, unit, today, faults, store, audit>>

\* scalar_one_or_none: no row gives None, one row gives the row, several
\* rows raise MultipleResultsFound.
_check_recent_assessment(r, at_midnight) ==
    LET rows == RecentRows(runs[r].entity_id, runs[r].assessment_type, at_midnight)
    IN  IF rows = {} THEN [error |-> "none", found |-> 0, rows |-> 0]
        ELSE IF Cardinality(rows) = 1
        THEN [error |-> "none", found |-> (CHOOSE a \in rows : TRUE).id, rows |-> 1]
        ELSE [error |-> "MULTIPLE_RESULTS", found |-> 0, rows |-> Cardinality(rows)]

CheckCache(r) ==
    /\ Step(r, "cache")
    /\ \E at_midnight \in BOOLEAN :
         LET recent == _check_recent_assessment(r, at_midnight)
         IN  runs' = [runs EXCEPT
                ![r].steps = @ \cup {"cache"},
                ![r].cache_rows = IF runs[r].force_refresh THEN 0 ELSE recent.rows,
                ![r].error = IF runs[r].force_refresh THEN "none" ELSE recent.error,
                ![r].returned = IF runs[r].force_refresh THEN 0 ELSE recent.found,
                ![r].pc =
                    IF runs[r].force_refresh THEN "analyze"
                    ELSE IF recent.error # "none" THEN "log_error"
                    ELSE IF recent.found # 0 THEN "commit"
                    ELSE "analyze"]
    /\ UNCHANGED <<entities, relations, authorized, unit, today, faults, store, audit>>

\* Lines 126-146: the traversal and, with no await that suspends in
\* between, the indicators, the mitigation measures, the risk score and the
\* submission requirements.
Determined(run, risk_assessment) ==
    [run EXCEPT
       !.steps = @ \cup {"score", "dcsa"},
       !.risk_assessment = risk_assessment,
       !.dcsa_requirements =
           _assess_dcsa_submission_requirements(risk_assessment,
                                                run.foci_indicators),
       !.pc = "create"]

Scored(run, mitigation_analysis) ==
    Determined([run EXCEPT !.steps = @ \cup {"mitigation"},
                           !.mitigation_measures = mitigation_analysis],
               _calculate_enterprise_risk_score(
                   run.ownership_analysis, run.foci_indicators,
                   mitigation_analysis))

Mitigated(run, foci_indicators) ==
    Scored([run EXCEPT !.steps = @ \cup {"indicators"},
                       !.foci_indicators = foci_indicators],
           _assess_mitigation_requirements(run.ownership_analysis, foci_indicators))

Analyzed(run, entity, ownership_analysis) ==
    IF ownership_analysis.error # "none"
    THEN [run EXCEPT !.steps = @ \cup {"analyze"},
                     !.ownership_analysis = ownership_analysis,
                     !.error = ownership_analysis.error,
                     !.pc = "log_error"]
    ELSE Mitigated([run EXCEPT !.steps = @ \cup {"analyze"},
                               !.ownership_analysis = ownership_analysis],
                   _evaluate_comprehensive_foci_indicators(entity,
                                                           ownership_analysis))

Analyze(r) ==
    /\ Step(r, "analyze")
    /\ runs' = [runs EXCEPT
                  ![r] = Analyzed(runs[r], entities[runs[r].entity_id],
                                  _analyze_ownership_structure(runs[r].entity_id))]
    /\ UNCHANGED <<entities, relations, authorized, unit, today, faults, store, audit>>

\* The rows _create_assessment_record adds to the session; the run's number
\* stands for the generated assessment id.
_create_assessment_record(r) ==
    [assessments |->
         {[id |-> r,
           entity_id |-> runs[r].entity_id,
           assessment_type |-> runs[r].assessment_type,
           risk_level |-> runs[r].risk_assessment.risk_level,
           risk_score |-> runs[r].risk_assessment.risk_score,
           dccsa_submission_required |->
               runs[r].dcsa_requirements.submission_required,
           assessment_date |-> today,
           assessor_id |-> runs[r].assessor_id,
           confidence_level |-> runs[r].risk_assessment.confidence_level,
           next_review_date |->
               _calculate_next_review_date(runs[r].assessment_type),
           validation_status |-> "PASSED"]},
     indicators |->
         {[assessment_id |-> r, idx |-> i, indicator |-> runs[r].foci_indicators[i]] :
              i \in 1..Len(runs[r].foci_indicators)},
     measures |->
         {[assessment_id |-> r, idx |-> i,
           measure_type |-> runs[r].mitigation_measures[i],
           status |-> "PROPOSED",
           review_date |-> today + 90] :
              i \in 1..Len(runs[r].mitigation_measures)}]

CreateRecord(r) ==
    /\ Step(r, "create")
    /\ runs' = [runs EXCEPT
                  ![r].steps = @ \cup {"create"},
                  ![r].pending = _create_assessment_record(r),
                  ![r].returned = r,
                  ![r].pc = "audit"]
    /\ UNCHANGED <<entities, relations, authorized, unit, today, faults, store, audit>>

LogCompleted(r) ==
    /\ Step(r, "audit")
    /\ audit' = audit \cup
                   {AuditRecord(r, "EVENT", "FOCI_ASSESSMENT_COMPLETED", r,
                                runs[r].risk_assessment.risk_level)}
    /\ runs' = [runs EXCEPT ![r].steps = @ \cup {"audit"}, ![r].pc = "commit"]
    /\ UNCHANGED <<entities, relations, authorized, unit, today, faults, store>>

\* A commit that replaces the entity's earlier assessments by the new one.
CommitReplacing(committed, pending) ==
    [assessments |->
         {a \in committed.assessments :
             \A p \in pending.assessments : p.entity_id # a.entity_id}
         \cup pending.assessments,
     indicators |-> committed.indicators \cup pending.indicators,
     measures |-> committed.measures \cup pending.measures]

CommitRows(committed, pending) ==
    [assessments |-> committed.assessments \cup pending.assessments,
     indicators |-> committed.indicators \cup pending.indicators,
     measures |-> committed.measures \cup pending.measures]

\* Leaving the `async with` block by return: the transaction commits.
Commit(r) ==
    /\ Step(r, "commit")
    /\ store' = CommitRows(store, runs[r].pending)
    /\ runs' = [runs EXCEPT
                  ![r].steps = @ \cup {"commit"},
                  ![r].pending = EmptyRows,
                  ![r].outcome = IF runs[r].returned = r
                                 THEN "returned_new" ELSE "returned_cached",
                  ![r].pc = "done"]
    /\ UNCHANGED <<entities, relations, authorized, unit, today, faults, audit>>

\* The except clause without the rollback: what the run added to the
\* session is flushed to the store before the error is raised.
LogErrorKeepingRows(r) ==
    /\ Step(r, "log_error")
    /\ audit' = audit \cup
                   {AuditRecord(r, "ERROR", "FOCI_ASSESSMENT_FAILED", 0,
                                runs[r].error)}
    /\ store' = [store EXCEPT !.assessments = @ \cup runs[r].pending.assessments]
    /\ runs' = [runs EXCEPT
                  ![r].steps = @ \cup {"log_error"},
                  ![r].pending = EmptyRows,
                  ![r].returned = 0,
                  ![r].outcome = "raised_wrapped",
                  ![r].pc = "done"]
    /\ UNCHANGED <<entities, relations, authorized, unit, today, faults>>

\* The except clause: log_error, then raise BusinessLogicError, which
\* leaves the `async with` block and rolls the transaction back.
LogError(r) ==
    /\ Step(r, "log_error")
    /\ audit' = audit \cup
                   {AuditRecord(r, "ERROR", "FOCI_ASSESSMENT_FAILED", 0,
                                runs[r].error)}
    /\ runs' = [runs EXCEPT
                  ![r].steps = @ \cup {"log_error"},
                  ![r].pending = EmptyRows,
                  ![r].returned = 0,
                  ![r].outcome = "raised_wrapped",
                  ![r].pc = "done"]
    /\ UNCHANGED <<entities, relations, authorized, unit, today, faults, store>>

(***************************************************************************)
(* The environment: failing collaborators, cancellation, time and the      *)
(* soft delete of the entity by the entity subsystem.                      *)
(***************************************************************************)
\* An await inside the try block raises.
StepFailure(r) ==
    /\ faults < MaxFaults
    /\ faults' = faults + 1
    /\ r \in RunIds
    /\ runs[r].pc \in TryStages
    /\ ~(runs[r].pc = "cache" /\ runs[r].force_refresh)
    /\ runs' = [runs EXCEPT
                  ![r].error = FailureOf(runs[r].pc),
                  ![r].pc = "log_error"]
    /\ UNCHANGED <<entities, relations, authorized, unit, today, store, audit>>

\* The commit at the exit of the `async with` block raises: the block is
\* outside the try, so the exception reaches the caller as it is.
CommitFailure(r) ==
    /\ faults < MaxFaults
    /\ faults' = faults + 1
    /\ Step(r, "commit")
    /\ runs' = [runs EXCEPT
                  ![r].error = "COMMIT",
                  ![r].pending = EmptyRows,
                  ![r].returned = 0,
                  ![r].outcome = "raised_unwrapped",
                  ![r].pc = "done"]
    /\ UNCHANGED <<entities, relations, authorized, unit, today, store, audit>>

\* The caller cancels the task: CancelledError is no Exception, the except
\* clause does not see it and the transaction rolls back.
Cancel(r) ==
    /\ faults < MaxFaults
    /\ faults' = faults + 1
    /\ r \in InFlight
    /\ runs' = [runs EXCEPT
                  ![r].error = "CANCELLED",
                  ![r].pending = EmptyRows,
                  ![r].returned = 0,
                  ![r].outcome = "cancelled",
                  ![r].pc = "done"]
    /\ UNCHANGED <<entities, relations, authorized, unit, today, store, audit>>

\* The days on which something happens; the clock only moves forward.
Days == {0, 30, 330}

Tick ==
    /\ \E d \in Days : d > today /\ today' = d
    /\ UNCHANGED <<entities, relations, authorized, unit, faults, store, audit, runs>>

\* Days at and just past the four recency thresholds.
CacheDays ==
    {0, 31, 60, 61, 91, 331}

TickCache ==
    /\ \E d \in CacheDays : d > today /\ today' = d
    /\ UNCHANGED <<entities, relations, authorized, unit, faults, store, audit, runs>>

\* A request of any assessment type arrives after the earlier ones ended.
AnyCall ==
    /\ Len(runs) < MaxRepeat
    /\ InFlight = {}
    /\ \E assessment_type \in AssessmentTypes, force_refresh \in BOOLEAN :
           Begin(Root, "fso", assessment_type, force_refresh)

SoftDelete ==
    /\ entities[Root].exists
    /\ ~entities[Root].deleted
    /\ entities' = [entities EXCEPT ![Root].deleted = TRUE]
    /\ UNCHANGED <<relations, authorized, unit, today, faults, store, audit, runs>>

\* Assess is asked again for the same data, one call after the other.
RepeatCall ==
    /\ Len(runs) < MaxRepeat
    /\ InFlight = {}
    /\ \E assessment_type \in CallTypes, force_refresh \in BOOLEAN :
           Begin(Root, "fso", assessment_type, force_refresh)

Reverse(s) ==
    [i \in 1..Len(s) |-> s[Len(s) + 1 - i]]

\* The database rewrites the relation table: the same rows, met in another
\* order by a scan.  ORDER BY ownership_percentage alone leaves the order
\* of rows of equal percentage to the scan.
Reorder ==
    /\ relations # Reverse(relations)
    /\ relations' = Reverse(relations)
    /\ UNCHANGED <<entities, authorized, unit, today, faults, store, audit, runs>>

(***************************************************************************)
(* Initial states: the ownership data the engine reads.  An edge is        *)
(* <<owned, owner, slot, effective_date, termination_date>>; the rows of    *)
(* slot "A" take one relation profile and those of slot "B" another.       *)
(***************************************************************************)
Profile(pct, voting, foreign, controlling, owner_type) ==
    [ownership_percentage |-> pct,
     voting_percentage |-> voting,
     is_foreign |-> foreign,
     is_controlling |-> controlling,
     owner_type |-> owner_type]

ProfilesA ==
    {Profile(100, 0, FALSE, FALSE, "CORPORATION"),
     Profile(100, 0, TRUE, TRUE, "CORPORATION"),
     Profile(30, 0, TRUE, FALSE, "CORPORATION"),
     Profile(3, 0, TRUE, FALSE, "GOVERNMENT"),
     Profile(5, 0, TRUE, FALSE, "CORPORATION"),
     Profile(10, 0, TRUE, FALSE, "TRUST"),
     Profile(25, 50, TRUE, FALSE, "CORPORATION"),
     Profile(60, 10, TRUE, FALSE, "CORPORATION")}

ProfilesB ==
    {Profile(100, 0, FALSE, FALSE, "CORPORATION"),
     Profile(100, 0, TRUE, TRUE, "CORPORATION"),
     Profile(50, 0, TRUE, FALSE, "GOVERNMENT")}

Row(edge, a, b) ==
    LET profile == IF edge[3] = "A" THEN a ELSE b
    IN  [owned_entity_id |-> edge[1],
         owner_entity_id |-> edge[2],
         owner_type |-> IF edge[2] = NoEntity THEN "INDIVIDUAL"
                        ELSE profile.owner_type,
         ownership_percentage |-> profile.ownership_percentage,
         voting_percentage |-> profile.voting_percentage,
         is_foreign |-> profile.is_foreign,
         is_controlling |-> profile.is_controlling,
         effective_date |-> edge[4],
         termination_date |-> edge[5]]

Table(edges, a, b) ==
    [i \in 1..Len(edges) |-> Row(edges[i], a, b)]

\* Entity 1 owned by 2, 2 by 3, ... : k relations, k + 1 entities.
ChainEdges(k) ==
    [i \in 1..k |-> <<i, i + 1, IF i = 1 THEN "A" ELSE "B", 0, NoDate>>]

\* A chain of n entities closed back to the root (n = 1: the root owns itself).
RingEdges(n) ==
    Append(ChainEdges(n - 1), <<n, Root, IF n = 1 THEN "A" ELSE "B", 0, NoDate>>)

\* A chain up to entity k + 1, which is in turn owned by entity k.
CycleAtEdges(k) ==
    Append(ChainEdges(k), <<k + 1, k, "B", 0, NoDate>>)

\* Entity 4 owns both owners of the root.
DiamondEdges ==
    <<<<1, 2, "A", 0, NoDate>>, <<1, 3, "A", 0, NoDate>>,
      <<2, 4, "B", 0, NoDate>>, <<3, 4, "B", 0, NoDate>>>>

\* Individuals and an entity own the root; the table is not in query order.
FanEdges ==
    <<<<1, NoEntity, "B", 0, NoDate>>, <<1, 2, "A", 0, NoDate>>,
      <<1, NoEntity, "A", 0, NoDate>>, <<2, NoEntity, "B", 0, NoDate>>>>

\* The relation to entity 3 ended on day 0; entity 3 is owned by the root.
LapsedEdges ==
    <<<<1, 2, "A", 0, NoDate>>, <<1, 3, "B", 0, 0>>, <<3, 1, "B", 0, NoDate>>>>

\* The relation closing the loop takes effect on day 330.
PendingEdges ==
    <<<<1, 2, "A", 0, NoDate>>, <<2, 1, "B", 330, NoDate>>>>

\* Two individuals own the root directly.
TieEdges ==
    <<<<1, NoEntity, "A", 0, NoDate>>, <<1, NoEntity, "B", 0, NoDate>>>>

\* The ownership data of SpecRepeat: owners of equal and of different
\* percentages.
TieGraphs ==
    {Table(edges, a, b) :
        edges \in {TieEdges, FanEdges},
        a \in ProfilesA,
        b \in ProfilesB \cup {Profile(25, 0, TRUE, FALSE, "CORPORATION")}}

Shapes ==
    {ChainEdges(k) : k \in 0..MaxChain}
    \cup {RingEdges(n) : n \in 1..MaxRing}
    \cup {CycleAtEdges(k) : k \in 2..MaxRing}
    \cup {DiamondEdges, FanEdges, LapsedEdges, PendingEdges}

Graphs ==
    {Table(edges, a, b) : edges \in Shapes, a \in ProfilesA, b \in ProfilesB}

\* The ownership data of Spec, where calls, time and failures interleave.
FewGraphs ==
    {Table(PendingEdges, Profile(30, 0, TRUE, FALSE, "CORPORATION"),
           Profile(100, 0, TRUE, TRUE, "CORPORATION"))}

EntityRow(exists, deleted, has_naics_codes, naics_codes) ==
    [exists |-> exists,
     deleted |-> deleted,
     has_naics_codes |-> has_naics_codes,
     naics_codes |-> naics_codes]

RootRows ==
    {EntityRow(TRUE, FALSE, FALSE, <<>>),
     EntityRow(TRUE, FALSE, TRUE, <<<<5, 4, 1, 5, 1, 1>>, <<2, 3, 6>>>>),
     EntityRow(TRUE, FALSE, TRUE, <<<<3, 3, 4, 4>>, <<5, 4, 1>>>>),
     EntityRow(TRUE, TRUE, FALSE, <<>>),
     EntityRow(FALSE, FALSE, FALSE, <<>>)}

EntityTable(root) ==
    [id \in EntityIds |->
        IF id = Root THEN root ELSE EntityRow(TRUE, FALSE, FALSE, <<>>)]

\* No helper is applied on its own.
NoUnit ==
    [fn |-> "none"]

(***************************************************************************)
(* The scorer, the ownership rule and the recommender applied on their     *)
(* own: unit holds the arguments of one call and, once applied, what the   *)
(* call returned.                                                          *)
(***************************************************************************)
SeqsUpTo(S, n) ==
    UNION {[1..k -> S] : k \in 0..n}

\* Indicators the evaluators emit.
IndicatorKinds ==
    {Indicator("FOREIGN_OWNERSHIP", "CRITICAL", 1, TRUE, "2-202a"),
     Indicator("FOREIGN_OWNERSHIP", "MAJOR", 1, TRUE, "2-202b"),
     Indicator("FOREIGN_CONTROL", "MODERATE", 3, TRUE, "2-204"),
     Indicator("FOREIGN_INFLUENCE", "MODERATE", 1, FALSE, "2-205"),
     Indicator("TECHNOLOGY_TRANSFER", "MINOR", 1, FALSE, "2-207")}

\* The measure lists the recommender returns: at most one primary measure,
\* then at most one technology control plan.
MeasureLists ==
    {primary \o technology :
        primary \in {<<>>, <<"SPECIAL_SECURITY_AGREEMENT">>,
                     <<"PROXY_AGREEMENT">>, <<"BOARD_RESOLUTION">>},
        technology \in {<<>>, <<"TECHNOLOGY_CONTROL_PLAN">>}}

ScorePercentages ==
    {DecInt(0), Decimal(49, 10), DecInt(5), DecInt(10), DecInt(24),
     DecInt(25), DecInt(30), DecInt(100)}

RulePercentages ==
    ScorePercentages
    \cup {Decimal(51, 10), Decimal(99, 10), Decimal(101, 10), Decimal(251, 10)}

Complexities ==
    {0, 4, 40, 99, 100}

\* The traversal's entry for one direct owner of the root.
UnitDetail(profile) ==
    relation_detail_of(Row(<<Root, NoEntity, "A", 0, NoDate>>, profile, profile),
                       0, DecInt(100))

UnitDetails ==
    {<<>>} \cup {<<UnitDetail(profile)>> : profile \in ProfilesA}

\* The analysis entry behind a FOREIGN_CONTROL indicator: the evaluator
\* emits one such indicator for each entry of foreign_control_indicators.
ControlsOf(foci_indicators) ==
    LET controls ==
            SelectSeq(foci_indicators,
                      LAMBDA ind : ind.indicator_type = "FOREIGN_CONTROL")
    IN  [i \in 1..Len(controls) |->
            [owner |-> UnitDetail(Profile(10, 0, TRUE, FALSE, "CORPORATION")),
             control_type |-> "OWNERSHIP_CONTROL",
             control_percentage |-> 10]]

UnitAnalysis(pct, complexity, controls, details) ==
    [NoAnalysis EXCEPT
        !.entity_id = Root,
        !.total_ownership_relations = Len(details),
        !.total_foreign_ownership_percentage = pct,
        !.ownership_complexity_score = complexity,
        !.foreign_control_indicators = controls,
        !.detailed_ownership = details]

ScoreUnits ==
    {[fn |-> "score", applied |-> FALSE,
      ownership_analysis |->
          UnitAnalysis(pct, complexity, ControlsOf(foci_indicators), <<>>),
      foci_indicators |-> foci_indicators,
      mitigation_measures |-> mitigation_measures,
      result |-> NoRisk] :
        pct \in ScorePercentages,
        complexity \in Complexities,
        foci_indicators \in SeqsUpTo(IndicatorKinds, MaxIndicators),
        mitigation_measures \in MeasureLists}

RuleUnits ==
    {[fn |-> "ownership", applied |-> FALSE,
      ownership_analysis |-> UnitAnalysis(pct, 0, <<>>, details),
      foci_indicators |-> <<>>,
      mitigation_measures |-> <<>>,
      result |-> <<>>] :
        pct \in RulePercentages, details \in UnitDetails}

RecommendUnits ==
    {[fn |-> "mitigation", applied |-> FALSE,
      ownership_analysis |->
          UnitAnalysis(pct, 0, ControlsOf(foci_indicators), <<>>),
      foci_indicators |-> foci_indicators,
      mitigation_measures |-> <<>>,
      result |-> <<>>] :
        pct \in RulePercentages,
        foci_indicators \in SeqsUpTo(IndicatorKinds, MaxIndicators)}

ConfidenceUnits ==
    {[fn |-> "confidence", applied |-> FALSE,
      ownership_analysis |->
          [UnitAnalysis(DecInt(0), 0, ControlsOf(foci_indicators), <<>>)
              EXCEPT !.ownership_tiers = tiers],
      foci_indicators |-> foci_indicators,
      mitigation_measures |-> <<>>,
      result |-> [score |-> 0, level |-> "LOW"]] :
        tiers \in 1..(ExpandDepthLimit + 1),
        foci_indicators \in SeqsUpTo(IndicatorKinds, MaxIndicators)}

ApplyScorer ==
    /\ unit.fn = "score"
    /\ ~unit.applied
    /\ unit' = [unit EXCEPT
                   !.applied = TRUE,
                   !.result = _calculate_enterprise_risk_score(
                                  unit.ownership_analysis,
                                  unit.foci_indicators,
                                  unit.mitigation_measures)]
    /\ UNCHANGED <<entities, relations, authorized, today, faults, store, audit, runs>>

ApplyOwnershipRule ==
    /\ unit.fn = "ownership"
    /\ ~unit.applied
    /\ unit' = [unit EXCEPT
                   !.applied = TRUE,
                   !.result = _assess_foreign_ownership_indicators(
                                  unit.ownership_analysis)]
    /\ UNCHANGED <<entities, relations, authorized, today, faults, store, audit, runs>>

ApplyConfidence ==
    /\ unit.fn = "confidence"
    /\ ~unit.applied
    /\ unit' = [unit EXCEPT
                   !.applied = TRUE,
                   !.result =
                       [score |-> ConfidenceScore(unit.ownership_analysis,
                                                  unit.foci_indicators),
                        level |-> _assess_confidence_level(
                                      unit.ownership_analysis,
                                      unit.foci_indicators)]]
    /\ UNCHANGED <<entities, relations, authorized, today, faults, store, audit, runs>>

ApplyRecommender ==
    /\ unit.fn = "mitigation"
    /\ ~unit.applied
    /\ unit' = [unit EXCEPT
                   !.applied = TRUE,
                   !.result = _assess_mitigation_requirements(
                                  unit.ownership_analysis,
                                  unit.foci_indicators)]
    /\ UNCHANGED <<entities, relations, authorized, today, faults, store, audit, runs>>

InitCommon ==
    /\ authorized = {"fso"}
    /\ today = 0
    /\ faults = 0
    /\ store = EmptyRows
    /\ audit = {}
    /\ runs = <<>>

Init ==
    /\ InitCommon
    /\ unit = NoUnit
    /\ relations \in FewGraphs
    /\ entities \in {EntityTable(RootRows_i) :
                        RootRows_i \in {EntityRow(TRUE, FALSE, FALSE, <<>>),
                                        EntityRow(FALSE, FALSE, FALSE, <<>>)}}

InitGraphs ==
    /\ InitCommon
    /\ unit = NoUnit
    /\ relations \in Graphs
    /\ entities \in {EntityTable(root) : root \in RootRows}

InitRepeat ==
    /\ InitCommon
    /\ unit = NoUnit
    /\ relations \in TieGraphs
    /\ entities \in {EntityTable(root) : root \in RootRows}

InitUnits ==
    /\ InitCommon
    /\ relations = <<>>
    /\ entities = EntityTable(EntityRow(TRUE, FALSE, FALSE, <<>>))
    /\ unit \in ScoreUnits \cup RuleUnits \cup RecommendUnits \cup ConfidenceUnits

Next ==
    \/ Call
    \/ \E r \in RunIds : Validate(r)
    \/ \E r \in RunIds : CheckCache(r)
    \/ \E r \in RunIds : Analyze(r)
    \/ \E r \in RunIds : CreateRecord(r)
    \/ \E r \in RunIds : LogCompleted(r)
    \/ \E r \in RunIds : Commit(r)
    \/ \E r \in RunIds : LogError(r)
    \/ \E r \in RunIds : StepFailure(r)
    \/ \E r \in RunIds : CommitFailure(r)
    \/ \E r \in RunIds : Cancel(r)
    \/ Tick
    \/ SoftDelete

NextGraphs ==
    \/ FirstCall
    \/ \E r \in RunIds : Validate(r)
    \/ \E r \in RunIds : CheckCache(r)
    \/ \E r \in RunIds : Analyze(r)
    \/ \E r \in RunIds : CreateRecord(r)
    \/ \E r \in RunIds : LogCompleted(r)
    \/ \E r \in RunIds : Commit(r)
    \/ \E r \in RunIds : LogError(r)

NextRace ==
    \/ OverlappingCall
    \/ \E r \in RunIds : Validate(r)
    \/ \E r \in RunIds : CheckCache(r)
    \/ \E r \in RunIds : Analyze(r)
    \/ \E r \in RunIds : CreateRecord(r)
    \/ \E r \in RunIds : LogCompleted(r)
    \/ \E r \in RunIds : Commit(r)
    \/ \E r \in RunIds : LogError(r)

NextRepeat ==
    \/ RepeatCall
    \/ \E r \in RunIds : Validate(r)
    \/ \E r \in RunIds : CheckCache(r)
    \/ \E r \in RunIds : Analyze(r)
    \/ \E r \in RunIds : CreateRecord(r)
    \/ \E r \in RunIds : LogCompleted(r)
    \/ \E r \in RunIds : Commit(r)
    \/ \E r \in RunIds : LogError(r)
    \/ Reorder

Spec == Init /\ [][Next]_vars

SpecRepeat == InitRepeat /\ [][NextRepeat]_vars

NextCache ==
    \/ AnyCall
    \/ \E r \in RunIds : Validate(r)
    \/ \E r \in RunIds : CheckCache(r)
    \/ \E r \in RunIds : Analyze(r)
    \/ \E r \in RunIds : CreateRecord(r)
    \/ \E r \in RunIds : LogCompleted(r)
    \/ \E r \in RunIds : Commit(r)
    \/ \E r \in RunIds : LogError(r)
    \/ TickCache

SpecCache == Init /\ [][NextCache]_vars

NextUnits ==
    \/ ApplyScorer
    \/ ApplyOwnershipRule
    \/ ApplyRecommender
    \/ ApplyConfidence

SpecUnits == InitUnits /\ [][NextUnits]_vars

SpecRace == Init /\ [][NextRace]_vars

SpecGraphs == InitGraphs /\ [][NextGraphs]_vars

(***************************************************************************)
(* Properties.  A run is a call of conduct_comprehensive_assessment; it    *)
(* has ended when its pc is "done".                                        *)
(***************************************************************************)
Ended(r) ==
    runs[r].pc = "done"

\* The run got past _validate_assessment_authority.
Validated(r) ==
    "validate" \in runs[r].steps /\ runs[r].error # "ENTITY_NOT_FOUND"

StoredBy(r) ==
    [assessments |-> {a \in store.assessments : a.id = r},
     indicators |-> {i \in store.indicators : i.assessment_id = r},
     measures |-> {m \in store.measures : m.assessment_id = r}]

\* The entity owners of the entities of S by the relations in effect today.
OwnersOf(S) ==
    {relations[i].owner_entity_id :
        i \in {j \in 1..Len(relations) :
                  /\ relations[j].owned_entity_id \in S
                  /\ IsActiveFor(relations[j], relations[j].owned_entity_id)
                  /\ relations[j].owner_entity_id # NoEntity}}

RECURSIVE OwnersClosure(_, _)
OwnersClosure(S, n) ==
    IF n = 0 THEN S ELSE OwnersClosure(S \cup OwnersOf(S), n - 1)

\* The entities above e, at any distance >= 1.
Ancestors(e) ==
    OwnersClosure(OwnersOf({e}), Cardinality(EntityIds))

\* A directed ownership cycle can be reached from the assessed entity.
CycleReachable ==
    \E e \in OwnersClosure({Root}, Cardinality(EntityIds)) : e \in Ancestors(e)

\* The relations are a single chain of k entity owners above the root.
ChainOfTiers(k) ==
    /\ Len(relations) = k
    /\ \A i \in 1..k :
          /\ relations[i].owned_entity_id = i
          /\ relations[i].owner_entity_id = i + 1
          /\ IsActiveFor(relations[i], i)

\* C1: whenever an ownership cycle of any length is reachable from the
\* assessed entity, a call that reaches the traversal ends with the
\* circular-ownership failure, returns nothing and persists nothing.
CycleAlwaysFails ==
    \A r \in RunIds :
        (Ended(r) /\ Validated(r) /\ CycleReachable)
            => /\ runs[r].error = "CIRCULAR"
               /\ runs[r].outcome = "raised_wrapped"
               /\ runs[r].returned = 0
               /\ StoredBy(r) = EmptyRows

\* C2: on an acyclic chain of 11 tiers (one more than the hard depth cap)
\* a call that reaches the traversal ends with the depth-exceeded failure
\* and persists no assessment.
ElevenTiersFail ==
    \A r \in RunIds :
        (Ended(r) /\ Validated(r) /\ ChainOfTiers(HardDepthCap + 1))
            => /\ runs[r].error = "MAX_DEPTH"
               /\ runs[r].outcome = "raised_wrapped"
               /\ store.assessments = {}

Failed(r) ==
    runs[r].outcome \in {"raised_wrapped", "raised_unwrapped", "cancelled"}

\* The store holds exactly the rows the run computed: its assessment with
\* its score, one row per indicator and one row per mitigation measure.
FullyStored(r) ==
    /\ Cardinality(StoredBy(r).assessments) = 1
    /\ \A a \in StoredBy(r).assessments :
          /\ a.risk_score = runs[r].risk_assessment.risk_score
          /\ a.risk_level = runs[r].risk_assessment.risk_level
    /\ StoredBy(r).indicators =
          {[assessment_id |-> r, idx |-> i,
            indicator |-> runs[r].foci_indicators[i]] :
              i \in 1..Len(runs[r].foci_indicators)}
    /\ {<<m.idx, m.measure_type>> : m \in StoredBy(r).measures} =
          {<<i, runs[r].mitigation_measures[i]>> :
              i \in 1..Len(runs[r].mitigation_measures)}

\* C3: in every state the store holds either all the rows of a run (its
\* assessment, every indicator, every mitigation measure) or none of them,
\* and it holds none for a run that has not completed its commit, whether
\* it is still running, has failed or was cancelled.
AllOrNothing ==
    \A r \in RunIds :
        IF runs[r].outcome = "returned_new"
        THEN FullyStored(r)
        ELSE StoredBy(r) = EmptyRows

\* One run is stored with its indicators and measures, another failed after
\* it had added its rows to the session and left nothing.
AllOrNothingWitness ==
    \E r \in RunIds, q \in RunIds :
        /\ runs[r].outcome = "returned_new"
        /\ StoredBy(r).indicators # {}
        /\ StoredBy(r).measures # {}
        /\ FullyStored(r)
        /\ Failed(q)
        /\ "create" \in runs[q].steps
        /\ StoredBy(q) = EmptyRows

\* The assessment rows a run has added to its transaction or committed.
RowsOf(r) ==
    runs[r].pending.assessments \cup StoredBy(r).assessments

ComputeSteps ==
    {"analyze", "indicators", "mitigation", "score", "dcsa", "create"}

\* No call of the behaviour arrived while another one was running.
OneAtATime ==
    \A r \in RunIds : runs[r].overlaps = {}

\* C5: a call with force_refresh = False whose cache query matches one or
\* more recent PASSED assessments of the entity and type ends by returning
\* a stored assessment, without traversal, indicators, mitigation or
\* scoring and without persisting a row of its own, whatever calls were
\* made (one after the other) before it, forced refreshes included.
RecentAssessmentIsReturned ==
    \A r \in RunIds :
        (OneAtATime /\ Ended(r) /\ ~runs[r].force_refresh
            /\ runs[r].cache_rows >= 1)
            => /\ runs[r].outcome = "returned_cached"
               /\ \E a \in store.assessments :
                     /\ a.id = runs[r].returned
                     /\ a.entity_id = runs[r].entity_id
                     /\ a.assessment_type = runs[r].assessment_type
               /\ runs[r].steps \cap ComputeSteps = {}
               /\ StoredBy(r) = EmptyRows

\* The cache query matched exactly one assessment and the call returned it.
RecentAssessmentWitness ==
    \E r \in RunIds :
        /\ OneAtATime
        /\ Ended(r)
        /\ runs[r].cache_rows = 1
        /\ runs[r].outcome = "returned_cached"
        /\ runs[r].returned # r
        /\ StoredBy(r) = EmptyRows

\* The run went past the cache check into the computation of a new
\* assessment (traversal ... persist).
Computing(r) ==
    "cache" \in runs[r].steps /\ runs[r].cache_rows = 0

ErrorEntries(r) ==
    {e \in LogEntries(r) : e.kind = "ERROR"}

ConcurrentPair(r, q) ==
    /\ r \in runs[q].overlaps
    /\ runs[r].entity_id = runs[q].entity_id
    /\ runs[r].assessment_type = runs[q].assessment_type
    /\ ~runs[r].force_refresh
    /\ ~runs[q].force_refresh

\* No other call has stored an assessment of that entity and type.
NoneBeforehand(r, q) ==
    \A a \in store.assessments :
        (a.entity_id = runs[r].entity_id
            /\ a.assessment_type = runs[r].assessment_type)
            => a.id \in {r, q}

\* C7: of two concurrent calls for the same entity and type, without
\* force_refresh and with no recent assessment stored beforehand, at most
\* one persists a new assessment.
AtMostOnePersisted ==
    \A r \in RunIds, q \in RunIds :
        (ConcurrentPair(r, q) /\ NoneBeforehand(r, q))
            => ~(StoredBy(r).assessments # {} /\ StoredBy(q).assessments # {})

\* Two such calls have both ended and one assessment is stored.
AtMostOnePersistedWitness ==
    \E r \in RunIds, q \in RunIds :
        /\ ConcurrentPair(r, q)
        /\ NoneBeforehand(r, q)
        /\ Ended(r)
        /\ Ended(q)
        /\ StoredBy(r).assessments # {}
        /\ StoredBy(q).assessments = {}
        /\ runs[q].outcome = "returned_cached"

\* C8: a call for an entity that is missing or soft-deleted when the call
\* is made never reaches the cache check or the traversal, returns nothing
\* (no cached record either) and persists nothing; unless a collaborator
\* fails or the call is cancelled first, it ends with the validation
\* failure.
GoneEntityFailsValidation ==
    \A r \in RunIds :
        runs[r].entity_gone
            => /\ runs[r].steps \cap ({"cache", "commit"} \cup ComputeSteps) = {}
               /\ runs[r].returned = 0
               /\ runs[r].outcome \notin {"returned_new", "returned_cached"}
               /\ runs[r].pending = EmptyRows
               /\ StoredBy(r) = EmptyRows
               /\ (Ended(r) /\ runs[r].error \notin {"STORAGE", "CANCELLED"})
                     => /\ runs[r].error = "ENTITY_NOT_FOUND"
                        /\ runs[r].outcome = "raised_wrapped"

\* A call without force_refresh for a soft-deleted entity that has a recent
\* PASSED assessment of the requested type has ended with the validation
\* failure.
GoneEntityWitness ==
    \E r \in RunIds :
        /\ runs[r].entity_gone
        /\ entities[runs[r].entity_id].deleted
        /\ ~runs[r].force_refresh
        /\ RecentRows(runs[r].entity_id, runs[r].assessment_type, FALSE) # {}
        /\ Ended(r)
        /\ runs[r].error = "ENTITY_NOT_FOUND"

\* C9: for an assessor the authority collaborator does not authorize, a
\* call never starts the traversal and never returns or persists an
\* assessment; it ends with the validation failure.
UnauthorizedNeverAssesses ==
    \A r \in RunIds :
        runs[r].assessor_id \notin authorized
            => /\ runs[r].steps \cap ComputeSteps = {}
               /\ runs[r].returned = 0
               /\ runs[r].pending = EmptyRows
               /\ StoredBy(r) = EmptyRows
               /\ Ended(r) => runs[r].outcome = "raised_wrapped"

(***************************************************************************)
(* The total foreign ownership of the specification: every relation in     *)
(* effect above the entity contributes, at every tier.                     *)
(***************************************************************************)
ActiveRelationsOf(entity_id) ==
    {i \in 1..Len(relations) : IsActiveFor(relations[i], entity_id)}

\* The number of tiers of entity owners above the entities of S.
RECURSIVE TiersAbove(_, _)
TiersAbove(S, n) ==
    IF OwnersOf(S) = {} \/ n > Cardinality(EntityIds)
    THEN n
    ELSE TiersAbove(OwnersOf(S), n + 1)

RECURSIVE ForeignSum(_, _)
RECURSIVE ForeignSumOver(_, _, _)
ForeignSum(entity_id, cumulative_percentage) ==
    ForeignSumOver(ActiveRelationsOf(entity_id), entity_id, cumulative_percentage)

ForeignSumOver(rows, entity_id, cumulative_percentage) ==
    IF rows = {} THEN DecInt(0)
    ELSE LET i == CHOOSE j \in rows : TRUE
             relation == relations[i]
             effective ==
                 DecMul(Decimal(relation.ownership_percentage, 100),
                        cumulative_percentage)
             own == IF relation.is_foreign THEN effective ELSE DecInt(0)
             above ==
                 IF relation.owner_entity_id # NoEntity
                 THEN ForeignSum(relation.owner_entity_id, effective)
                 ELSE DecInt(0)
         IN  DecAdd(DecAdd(own, above),
                    ForeignSumOver(rows \ {i}, entity_id, cumulative_percentage))

WithinHardCap ==
    ~CycleReachable /\ TiersAbove({Root}, 0) <= HardDepthCap

Computed(r) ==
    runs[r].outcome = "returned_new"

Applied(fn) ==
    unit.fn = fn /\ unit.applied

\* The scorer on the unit's arguments with another foreign percentage.
ScoreAt(pct) ==
    _calculate_enterprise_risk_score(
        [unit.ownership_analysis EXCEPT
            !.total_foreign_ownership_percentage = pct],
        unit.foci_indicators,
        unit.mitigation_measures).risk_score

\* C12: with the complexity score, the indicator list and the mitigation
\* list held fixed, the scorer's risk score does not decrease when the
\* total foreign ownership percentage increases.
ScoreIsMonotone ==
    Applied("score")
        => \A pct \in ScorePercentages :
               DecGE(pct, unit.ownership_analysis.total_foreign_ownership_percentage)
                   => ScoreAt(pct) >= unit.result.risk_score

\* A scored input with indicators and measures whose score rises with the
\* percentage.
ScoreIsMonotoneWitness ==
    /\ Applied("score")
    /\ unit.ownership_analysis.total_foreign_ownership_percentage = DecInt(24)
    /\ unit.foci_indicators # <<>>
    /\ unit.mitigation_measures # <<>>
    /\ unit.result.risk_score > 0
    /\ ScoreAt(DecInt(25)) > unit.result.risk_score

\* The scorer was applied to 30% foreign ownership and no measures.
ScenarioA ==
    /\ Applied("score")
    /\ unit.ownership_analysis.total_foreign_ownership_percentage = DecInt(30)
    /\ unit.mitigation_measures = <<>>

\* C13 as stated: 30% foreign ownership, an empty indicator list and an
\* empty mitigation list give a score of at least 50, risk level CRITICAL
\* and the deny recommendation, for every complexity score.
ThirtyPercentAloneIsCritical ==
    (ScenarioA /\ unit.foci_indicators = <<>>)
        => /\ unit.result.risk_score >= 50
           /\ unit.result.risk_level = "CRITICAL"
           /\ unit.result.clearance_recommendation = "DENY"

\* C13 amended: 30% foreign ownership with an empty indicator list and an
\* empty mitigation list scores 50 + min(complexity div 4, 25), between 50
\* and 75: MEDIUM with approve-with-mitigation below 60, HIGH with
\* conditional approval from 60, never CRITICAL.  With the one indicator
\* the ownership rule emits for 30% in the list, the score is at least 100,
\* the level CRITICAL and the recommendation deny.
ThirtyPercentScore ==
    ScenarioA
        => LET complexity == unit.ownership_analysis.ownership_complexity_score
               result == unit.result
           IN  /\ unit.foci_indicators = <<>>
                    => /\ result.risk_score = 50 + Min(complexity \div 4, 25)
                       /\ result.risk_score \in 50..75
                       /\ result.risk_level =
                              IF result.risk_score < 60 THEN "MEDIUM" ELSE "HIGH"
                       /\ result.clearance_recommendation =
                              IF result.risk_score < 60
                              THEN "APPROVE WITH MITIGATION"
                              ELSE "CONDITIONAL APPROVAL"
               /\ unit.foci_indicators =
                      _assess_foreign_ownership_indicators(unit.ownership_analysis)
                    => /\ result.risk_score >= 100
                       /\ result.risk_level = "CRITICAL"
                       /\ result.clearance_recommendation = "DENY"

\* 30% alone, complexity 40: score 60, HIGH.
ThirtyPercentWitness ==
    /\ ScenarioA
    /\ unit.foci_indicators = <<>>
    /\ unit.ownership_analysis.ownership_complexity_score = 40
    /\ unit.result.risk_score = 60
    /\ unit.result.risk_level = "HIGH"

\* Run r computed its assessment from an analysis with 0% foreign
\* ownership, no indicators and no measures.
ScenarioB(r) ==
    /\ "dcsa" \in runs[r].steps
    /\ runs[r].ownership_analysis.total_foreign_ownership_percentage = DecInt(0)
    /\ runs[r].foci_indicators = <<>>
    /\ runs[r].mitigation_measures = <<>>

\* C14 as stated: with 0% foreign ownership, no indicators and no
\* measures the result has risk score 0, risk level NONE, mitigation
\* required false and submission required false, for every domestic
\* ownership structure.
DomesticScoresZero ==
    \A r \in RunIds :
        ScenarioB(r)
            => /\ runs[r].risk_assessment.risk_score = 0
               /\ runs[r].risk_assessment.risk_level = "NONE"
               /\ ~runs[r].risk_assessment.mitigation_required
               /\ ~runs[r].dcsa_requirements.submission_required

\* C14 amended: with 0% foreign ownership, no indicators and no measures
\* the risk score is min(complexity div 4, 25), which is 0 only for a
\* complexity below 4; the risk level is NONE below 10 and LOW from 10;
\* mitigation required and submission required are false.
DomesticScoresComplexity ==
    \A r \in RunIds :
        ScenarioB(r)
            => LET complexity ==
                       runs[r].ownership_analysis.ownership_complexity_score
                   score == runs[r].risk_assessment.risk_score
               IN  /\ score = Min(complexity \div 4, 25)
                   /\ (score = 0) <=> (complexity < 4)
                   /\ runs[r].risk_assessment.risk_level =
                          IF score < 10 THEN "NONE" ELSE "LOW"
                   /\ ~runs[r].risk_assessment.mitigation_required
                   /\ ~runs[r].dcsa_requirements.submission_required

\* A stored assessment of a chain of domestic owners: 0% foreign, LOW.
DomesticScoresWitness ==
    \E r \in RunIds :
        /\ ScenarioB(r)
        /\ runs[r].outcome = "returned_new"
        /\ runs[r].ownership_analysis.ownership_tiers > 1
        /\ runs[r].risk_assessment.risk_level = "LOW"
        /\ \E a \in StoredBy(r).assessments : a.risk_level = "LOW"

\* The traversal output of run r holds a foreign relation whose owner is
\* a government.
HasForeignGovernment(r) ==
    \E i \in 1..Len(runs[r].ownership_analysis.detailed_ownership) :
        LET rel == runs[r].ownership_analysis.detailed_ownership[i]
        IN  rel.is_foreign /\ rel.owner_type = "GOVERNMENT"

\* Run r lists a critical influence indicator with mitigation required.
HasGovernmentIndicator(r) ==
    \E i \in 1..Len(runs[r].foci_indicators) :
        LET ind == runs[r].foci_indicators[i]
        IN  /\ ind.indicator_type = "FOREIGN_INFLUENCE"
            /\ ind.severity = "CRITICAL"
            /\ ind.mitigation_required

\* The only relation run r found is a foreign government holding 3%
\* directly, without control.
ScenarioE(r) ==
    LET details == runs[r].ownership_analysis.detailed_ownership
    IN  /\ Len(details) = 1
        /\ details[1].is_foreign
        /\ details[1].owner_type = "GOVERNMENT"
        /\ details[1].direct_percentage = 3
        /\ ~details[1].is_controlling
        /\ runs[r].ownership_analysis.foreign_control_indicators = <<>>

Clamp(x, lo, hi) ==
    Max(lo, Min(x, hi))

\* The value the scoring formula has before it is clamped.
PreClamp(ownership_analysis, foci_indicators, mitigation_measures) ==
    OwnershipScore(ownership_analysis.total_foreign_ownership_percentage)
    + Min(ownership_analysis.ownership_complexity_score \div 4, 25)
    + Min(Sum([i \in 1..Len(foci_indicators) |->
                  IndicatorWeight(foci_indicators[i])]), 50)
    - Sum([i \in 1..Len(mitigation_measures) |->
              MeasureReduction(mitigation_measures[i])])

\* C16: for every analysis, indicator list and mitigation list the scorer
\* returns the ownership score plus min(complexity div 4, 25) plus
\* min(sum of indicator weights, 50) minus the per-measure reductions,
\* clamped to 0..100; one more Special Security Agreement lowers the value
\* before the clamp by exactly 30.
ScoreIsClamped ==
    Applied("score")
        => LET analysis == unit.ownership_analysis
               with_ssa ==
                   _calculate_enterprise_risk_score(
                       analysis, unit.foci_indicators,
                       unit.mitigation_measures
                           \o <<"SPECIAL_SECURITY_AGREEMENT">>)
           IN  /\ unit.result.risk_score =
                      Clamp(PreClamp(analysis, unit.foci_indicators,
                                     unit.mitigation_measures), 0, 100)
               /\ with_ssa.base_score - with_ssa.mitigation_reduction
                      = unit.result.base_score
                            - unit.result.mitigation_reduction - 30

\* The scorer returned a score above 100.
ScoreAboveHundred ==
    /\ Applied("score")
    /\ unit.mitigation_measures = <<>>
    /\ unit.result.risk_score = 125

\* The severities of the indicators about the total (the others are about
\* one concentrated owner each).
TotalOwnershipSeverities(indicators) ==
    LET total == SelectSeq(indicators,
                           LAMBDA ind : ind.nispom_reference # "2-203")
    IN  [i \in 1..Len(total) |-> total[i].severity]

\* C17: the ownership rule emits exactly one indicator about the total,
\* critical when total foreign ownership is >= 25, major when >= 10 and
\* < 25, moderate when >= 5 and < 10, and none below 5, the exact values
\* 5, 10 and 25 included.
OwnershipRuleThresholds ==
    Applied("ownership")
        => LET pct == unit.ownership_analysis.total_foreign_ownership_percentage
           IN  TotalOwnershipSeverities(unit.result) =
                   IF DecGE(pct, DecInt(25)) THEN <<"CRITICAL">>
                   ELSE IF DecGE(pct, DecInt(10)) THEN <<"MAJOR">>
                   ELSE IF DecGE(pct, DecInt(5)) THEN <<"MODERATE">>
                   ELSE <<>>

\* The rule applied to exactly 25% returned a major indicator.
OwnershipRuleAtThreshold ==
    /\ Applied("ownership")
    /\ unit.ownership_analysis.total_foreign_ownership_percentage = DecInt(25)
    /\ TotalOwnershipSeverities(unit.result) = <<"MAJOR">>

Returns(measure_type) ==
    \E i \in 1..Len(unit.result) : unit.result[i] = measure_type

\* C18: the recommender returns a Special Security Agreement iff some
\* indicator is critical or total foreign ownership is >= 25; otherwise,
\* iff some indicator is major or total foreign ownership is >= 10, it
\* returns a Proxy Agreement when a control indicator exists and a Board
\* Resolution when none exists; independently it adds a Technology Control
\* Plan iff some technology-transfer indicator exists.  No measure is
\* returned twice.
RecommenderRule ==
    Applied("mitigation")
        => LET pct == unit.ownership_analysis.total_foreign_ownership_percentage
               first ==
                   \/ HasSeverity(unit.foci_indicators, "CRITICAL")
                   \/ DecGE(pct, DecInt(25))
               second ==
                   /\ ~first
                   /\ \/ HasSeverity(unit.foci_indicators, "MAJOR")
                      \/ DecGE(pct, DecInt(10))
               control == HasType(unit.foci_indicators, "FOREIGN_CONTROL")
           IN  /\ Returns("SPECIAL_SECURITY_AGREEMENT") <=> first
               /\ Returns("PROXY_AGREEMENT") <=> (second /\ control)
               /\ Returns("BOARD_RESOLUTION") <=> (second /\ ~control)
               /\ Returns("TECHNOLOGY_CONTROL_PLAN")
                      <=> HasType(unit.foci_indicators, "TECHNOLOGY_TRANSFER")
               /\ Len(unit.result)
                      = Cardinality({unit.result[i] : i \in 1..Len(unit.result)})

\* A major indicator without a control indicator, and a technology
\* indicator: a board resolution and a technology control plan.
RecommenderWitness ==
    /\ Applied("mitigation")
    /\ HasSeverity(unit.foci_indicators, "MAJOR")
    /\ ~HasType(unit.foci_indicators, "FOREIGN_CONTROL")
    /\ unit.ownership_analysis.total_foreign_ownership_percentage = DecInt(5)
    /\ unit.result = <<"BOARD_RESOLUTION", "TECHNOLOGY_CONTROL_PLAN">>

Ends(r) ==
    runs[r].pc # "done" /\ runs'[r].pc = "done"

\* The rows this step adds to the store are the assessment of run r, one
\* row per indicator and one row per measure of r, and nothing else.
AddsRecordOf(r) ==
    /\ Cardinality(store'.assessments \ store.assessments) = 1
    /\ \A a \in store'.assessments \ store.assessments :
          /\ a.id = r
          /\ a.risk_score = runs[r].risk_assessment.risk_score
    /\ store'.indicators \ store.indicators =
          {[assessment_id |-> r, idx |-> i,
            indicator |-> runs[r].foci_indicators[i]] :
              i \in 1..Len(runs[r].foci_indicators)}
    /\ store'.measures \ store.measures \subseteq
          {m \in store'.measures : m.assessment_id = r}
    /\ Cardinality(store'.measures \ store.measures)
          = Len(runs[r].mitigation_measures)

FrameStep ==
    /\ store.assessments \subseteq store'.assessments
    /\ store.indicators \subseteq store'.indicators
    /\ store.measures \subseteq store'.measures
    /\ \A r \in RunIds :
          Ends(r) => IF runs'[r].outcome = "returned_new"
                     THEN AddsRecordOf(r)
                     ELSE store' = store
    /\ store' # store
          => \E r \in RunIds : Ends(r) /\ runs'[r].outcome = "returned_new"

\* C20: assess never modifies or deletes an assessment, indicator or
\* mitigation row of the store; a run that completes without a cache hit
\* adds exactly one assessment row with its own indicator and mitigation
\* rows; a cache hit, a failed run and every other step leave the store
\* unchanged.
StoreOnlyGrows ==
    [][FrameStep]_vars

\* Two completed runs stored one assessment each, the first one still
\* there as it was written.
StoreOnlyGrowsWitness ==
    \E r \in RunIds, q \in RunIds :
        /\ r < q
        /\ runs[r].outcome = "returned_new"
        /\ runs[q].outcome = "returned_new"
        /\ FullyStored(r)
        /\ FullyStored(q)
        /\ Cardinality(store.assessments) = 2

\* The control severity the rule gives a control percentage.
ControlSeverity(control_percentage) ==
    IF control_percentage >= 50 THEN "CRITICAL"
    ELSE IF control_percentage >= 25 THEN "MAJOR"
    ELSE "MODERATE"

\* The foreign relations of an analysis that are marked controlling or
\* hold 10% or more, directly or in votes.
ControlCandidatesOf(ownership_analysis) ==
    SelectSeq(ForeignRelations(ownership_analysis),
              LAMBDA rel : \/ rel.is_controlling
                           \/ rel.direct_percentage >= 10
                           \/ rel.voting_percentage >= 10)

ControlSeveritiesOf(foci_indicators) ==
    LET control == SelectSeq(foci_indicators,
                             LAMBDA ind : ind.indicator_type = "FOREIGN_CONTROL")
    IN  [i \in 1..Len(control) |-> control[i].severity]

RecencyWindow(assessment_type) ==
    IF assessment_type = "INITIAL" THEN 90
    ELSE IF assessment_type = "ANNUAL" THEN 330
    ELSE IF assessment_type = "TRIGGERED" THEN 30
    ELSE 60

\* Run r takes the stored assessment in this step.
TakesCached(r) ==
    runs[r].pc = "cache" /\ runs'[r].pc = "commit"

CachedStep ==
    \A r \in RunIds :
        /\ TakesCached(r)
              => /\ ~runs[r].force_refresh
                 /\ \E a \in store.assessments :
                       /\ a.id = runs'[r].returned
                       /\ a.entity_id = runs[r].entity_id
                       /\ a.assessment_type = runs[r].assessment_type
                       /\ a.validation_status = "PASSED"
                       /\ a.assessment_date <= today
                       /\ today - a.assessment_date
                              <= RecencyWindow(runs[r].assessment_type)
        /\ runs'[r].outcome = "returned_cached"
              => /\ ~runs[r].force_refresh
                 /\ runs[r].returned # 0
                 /\ runs[r].returned # r
        /\ runs'[r].force_refresh /\ runs'[r].outcome \in {"returned_new", "returned_cached"}
              => runs'[r].returned = r

Traversed(r) ==
    "analyze" \in runs[r].steps

\* C23: the traversal raises the circular-ownership failure only when the
\* owner graph reachable from the root contains a directed cycle; an
\* acyclic graph in which one owner entity is reached along two ownership
\* paths is analysed successfully.
CircularOnlyOnCycle ==
    \A r \in RunIds :
        Traversed(r)
            => /\ runs[r].error = "CIRCULAR" => CycleReachable
               /\ ~CycleReachable => runs[r].error = "none"

\* The traversal of an acyclic graph ended with the circular-ownership
\* failure.
CircularWithoutCycle ==
    \E r \in RunIds :
        /\ Ended(r)
        /\ runs[r].error = "CIRCULAR"
        /\ runs[r].outcome = "raised_wrapped"
        /\ ~CycleReachable

\* The numbers of the details of an analysis that satisfy a test on depth.
EntityOwnedBelow(details, depth) ==
    {i \in 1..Len(details) :
        details[i].owner_id # NoEntity /\ details[i].depth < depth}

\* C24: in every analysis the traversal returns, every recorded relation
\* has a depth from 0 to 5 and ownership_tiers is from 1 to 6; the owners
\* of a relation recorded at depth 5 are not visited (one relation fetch
\* for the root and one for each entity owner recorded above depth 5), so
\* no traversal call is made at a depth above 5, let alone above the hard
\* cap of 10.
DepthStaysWithinLimit ==
    \A r \in RunIds :
        (Traversed(r) /\ runs[r].ownership_analysis.error = "none")
            => LET analysis == runs[r].ownership_analysis
                   details == analysis.detailed_ownership
               IN  /\ \A i \in 1..Len(details) :
                         details[i].depth \in 0..ExpandDepthLimit
                   /\ analysis.ownership_tiers \in 1..(ExpandDepthLimit + 1)
                   /\ analysis.max_call_depth <= ExpandDepthLimit
                   /\ analysis.max_call_depth <= HardDepthCap
                   /\ analysis.fetches =
                         1 + Cardinality(EntityOwnedBelow(details, ExpandDepthLimit))

\* A stored assessment of six tiers whose relation at depth 5 has an
\* entity owner that was not visited.
DepthLimitWitness ==
    \E r \in RunIds :
        /\ runs[r].outcome = "returned_new"
        /\ runs[r].ownership_analysis.ownership_tiers = ExpandDepthLimit + 1
        /\ \E i \in 1..Len(runs[r].ownership_analysis.detailed_ownership) :
              LET detail == runs[r].ownership_analysis.detailed_ownership[i]
              IN  detail.depth = ExpandDepthLimit /\ detail.owner_id # NoEntity
        /\ runs[r].ownership_analysis.fetches = ExpandDepthLimit + 1

\* The traversal from the root as the closure leaves it.
WalkFromRoot ==
    traverse_ownership(EmptyAcc, Root, 0, DecInt(100))

MeasuresAmong(measures, types) ==
    {i \in 1..Len(measures) : measures[i] \in types}

\* C26: for every input the list the recommender returns holds at most
\* one measure among Special Security Agreement, Proxy Agreement and
\* Board Resolution and at most one Technology Control Plan, so the
\* scorer, given that list as the pipeline gives it, applies a mitigation
\* reduction of at most 40.
AtMostOnePrimaryMeasure ==
    Applied("mitigation")
        => /\ Cardinality(MeasuresAmong(unit.result,
                  {"SPECIAL_SECURITY_AGREEMENT", "PROXY_AGREEMENT",
                   "BOARD_RESOLUTION"})) <= 1
           /\ Cardinality(MeasuresAmong(unit.result,
                  {"TECHNOLOGY_CONTROL_PLAN"})) <= 1
           /\ Len(unit.result) <= 2
           /\ _calculate_enterprise_risk_score(
                  unit.ownership_analysis, unit.foci_indicators,
                  unit.result).mitigation_reduction <= 40

\* The recommender returned a Special Security Agreement and a Technology
\* Control Plan for an input with a critical and a technology indicator and 10% or
\* more foreign ownership: the reduction is 40.
AtMostOnePrimaryWitness ==
    /\ Applied("mitigation")
    /\ HasSeverity(unit.foci_indicators, "CRITICAL")
    /\ DecGE(unit.ownership_analysis.total_foreign_ownership_percentage, DecInt(10))
    /\ HasType(unit.foci_indicators, "TECHNOLOGY_TRANSFER")
    /\ unit.result = <<"SPECIAL_SECURITY_AGREEMENT", "TECHNOLOGY_CONTROL_PLAN">>
    /\ _calculate_enterprise_risk_score(
           unit.ownership_analysis, unit.foci_indicators,
           unit.result).mitigation_reduction = 40

\* The indicators of a list that carry fewer than two evidence items.
WeakEvidence(foci_indicators) ==
    {i \in 1..Len(foci_indicators) : foci_indicators[i].evidence < 2}

\* C27: the confidence score of any analysis and indicator list is one
\* of 100, 90, 80 and 70, so the confidence level is never LOW; more than
\* 3 tiers with well-evidenced indicators still give VERY_HIGH; with an
\* empty indicator list the weak-evidence deduction is not applied.
ConfidenceNeverLow ==
    Applied("confidence")
        => LET tiers == unit.ownership_analysis.ownership_tiers
               weak == Cardinality(WeakEvidence(unit.foci_indicators))
           IN  /\ unit.result.score \in {100, 90, 80, 70}
               /\ unit.result.score =
                      100 - (IF tiers > 3 THEN 10 ELSE 0)
                          - (IF 2 * weak > Len(unit.foci_indicators)
                             THEN 20 ELSE 0)
               /\ unit.result.level \in {"VERY_HIGH", "HIGH", "MEDIUM"}
               /\ unit.result.level =
                      IF unit.result.score >= 90 THEN "VERY_HIGH"
                      ELSE IF unit.result.score >= 75 THEN "HIGH"
                      ELSE "MEDIUM"
               /\ (tiers > 3 /\ weak = 0) => unit.result.level = "VERY_HIGH"
               /\ unit.foci_indicators = <<>>
                      => unit.result.score = 100 - (IF tiers > 3 THEN 10 ELSE 0)

\* The lowest score: more than 3 tiers and weak evidence give 70, MEDIUM.
ConfidenceLowestWitness ==
    /\ Applied("confidence")
    /\ unit.ownership_analysis.ownership_tiers > 3
    /\ unit.foci_indicators # <<>>
    /\ unit.result.score = 70
    /\ unit.result.level = "MEDIUM"

CompletedEntries(r) ==
    {e \in LogEntries(r) :
        e.kind = "EVENT" /\ e.event_type = "FOCI_ASSESSMENT_COMPLETED"}

\* C30: once a run has ended, a FOCI_ASSESSMENT_COMPLETED audit event exists
\* for it only if its assessment is committed, and every committed
\* assessment has exactly one such event: a run whose completion audit call
\* failed has stored nothing, and a run whose commit failed at the exit of
\* the transaction has no completion event.
CompletedEventIffCommitted ==
    /\ \A r \in RunIds :
          Ended(r) =>
              /\ CompletedEntries(r) # {} => StoredBy(r).assessments # {}
              /\ runs[r].error = "AUDIT" => StoredBy(r) = EmptyRows
              /\ runs[r].error = "COMMIT" => CompletedEntries(r) = {}
    /\ \A a \in store.assessments :
          Cardinality(CompletedEntries(a.id)) = 1

\* A run whose commit failed: nothing of it is stored, the caller got the
\* database error, and the audit log says its assessment was completed.
CompletedEventWithoutAssessment ==
    \E r \in RunIds :
        /\ Ended(r)
        /\ runs[r].error = "COMMIT"
        /\ StoredBy(r) = EmptyRows
        /\ Cardinality(CompletedEntries(r)) = 1
        /\ ErrorEntries(r) = {}

\* What the code keeps of it: every committed assessment has exactly one
\* completion event, and a run whose completion audit call
\* failed has stored nothing and has no completion event.
CommittedHasOneCompletedEvent ==
    /\ \A a \in store.assessments :
          Cardinality(CompletedEntries(a.id)) = 1
    /\ \A r \in RunIds :
          (Ended(r) /\ runs[r].error = "AUDIT")
              => StoredBy(r) = EmptyRows /\ CompletedEntries(r) = {}

====
